---- MODULE Spec2Model ----
\* Battery voltage divider sensor driver (battery_voltage_divider.c):
\* the LiIon voltage-to-percent estimator and the sampling wrapper.
EXTENDS Integers, Sequences, FiniteSets

\* ------------------------------------------------------------------
\* Bounds of the verification
\* ------------------------------------------------------------------
\* window around the table of the inputs that every estimator input is
\* compared with
MinMv == 3400
MaxMv == 4200
\* analog readings (millivolts at the divider output) offered to the driver:
\* 0, RawStep, ..., MaxRawIdx * RawStep
RawStep == 365
MaxRawIdx == 9

\* ------------------------------------------------------------------
\* Program constants
\* ------------------------------------------------------------------
BATTERY_CHARGE_LEVEL_LUT_COUNT == 27

charge_level_lut ==
    << [mv |-> 3434, pct |-> 0],  [mv |-> 3457, pct |-> 4],  [mv |-> 3487, pct |-> 8],
       [mv |-> 3520, pct |-> 12], [mv |-> 3545, pct |-> 15], [mv |-> 3577, pct |-> 19],
       [mv |-> 3595, pct |-> 23], [mv |-> 3609, pct |-> 27], [mv |-> 3618, pct |-> 31],
       [mv |-> 3625, pct |-> 35], [mv |-> 3633, pct |-> 38], [mv |-> 3643, pct |-> 42],
       [mv |-> 3656, pct |-> 46], [mv |-> 3672, pct |-> 50], [mv |-> 3696, pct |-> 54],
       [mv |-> 3733, pct |-> 58], [mv |-> 3767, pct |-> 62], [mv |-> 3796, pct |-> 65],
       [mv |-> 3825, pct |-> 69], [mv |-> 3862, pct |-> 73], [mv |-> 3899, pct |-> 77],
       [mv |-> 3936, pct |-> 81], [mv |-> 3976, pct |-> 85], [mv |-> 4023, pct |-> 88],
       [mv |-> 4068, pct |-> 92], [mv |-> 4120, pct |-> 96], [mv |-> 4177, pct |-> 100] >>

INT16_MIN == -32768
INT16_MAX == 32767
UINT8_MAX == 255
UINT16_MOD == 65536
ENOTSUP == 134

\* ------------------------------------------------------------------
\* IEEE-754 binary64 arithmetic on non-negative values.
\* A natural number of any size is a sequence of 15-bit limbs, least
\* significant first, without leading zero limbs.
\* A double is [cls |-> "zero" | "fin" | "inf" | "nan", m, e]; a finite
\* non-zero double has a 53-bit significand m (top bit 1) and the value
\* m * 2^e.  Results are rounded to nearest, ties to even.
\* ------------------------------------------------------------------
DBL_MANT_DIG == 53
LIMB_BITS == 15

RECURSIVE Pow2(_)
Pow2(k) == IF k <= 0 THEN 1 ELSE 2 * Pow2(k - 1)

LIMB == Pow2(LIMB_BITS)

RECURSIVE BitLenSmall(_)
BitLenSmall(n) == IF n = 0 THEN 0 ELSE 1 + BitLenSmall(n \div 2)

RECURSIVE LowZerosSmall(_)
LowZerosSmall(n) == IF n % 2 = 1 THEN 0 ELSE 1 + LowZerosSmall(n \div 2)

RECURSIVE Trim(_)
Trim(a) ==
    IF a = << >> THEN << >>
    ELSE IF a[Len(a)] = 0 THEN Trim(SubSeq(a, 1, Len(a) - 1))
    ELSE a

RECURSIVE IntToBig(_)
IntToBig(n) ==
    IF n = 0 THEN << >> ELSE << n % LIMB >> \o IntToBig(n \div LIMB)

\* only for values below 2^30
RECURSIVE BigToInt(_)
BigToInt(a) ==
    IF a = << >> THEN 0 ELSE Head(a) + LIMB * BigToInt(Tail(a))

BitLen(a) ==
    IF a = << >> THEN 0
    ELSE (Len(a) - 1) * LIMB_BITS + BitLenSmall(a[Len(a)])

LowZeros(a) ==
    LET j == CHOOSE i \in 1..Len(a) : a[i] # 0 /\ \A h \in 1..(i - 1) : a[h] = 0
    IN  (j - 1) * LIMB_BITS + LowZerosSmall(a[j])

RECURSIVE AddBig(_, _, _)
AddBig(a, b, carry) ==
    IF a = << >> /\ b = << >> THEN (IF carry = 0 THEN << >> ELSE << carry >>)
    ELSE LET x == IF a = << >> THEN 0 ELSE Head(a)
             y == IF b = << >> THEN 0 ELSE Head(b)
             t == x + y + carry
         IN  << t % LIMB >> \o AddBig(IF a = << >> THEN << >> ELSE Tail(a),
                                      IF b = << >> THEN << >> ELSE Tail(b),
                                      t \div LIMB)

\* a * d + carry for one limb d
RECURSIVE MulSmall(_, _, _)
MulSmall(a, d, carry) ==
    IF a = << >> THEN (IF carry = 0 THEN << >> ELSE << carry >>)
    ELSE LET t == Head(a) * d + carry
         IN  << t % LIMB >> \o MulSmall(Tail(a), d, t \div LIMB)

RECURSIVE MulBig(_, _)
MulBig(a, b) ==
    IF b = << >> THEN << >>
    ELSE Trim(AddBig(MulSmall(a, Head(b), 0), << 0 >> \o MulBig(a, Tail(b)), 0))

\* quotient and remainder of a by d, 0 < d < 2^16
RECURSIVE DivSmall(_, _)
DivSmall(a, d) ==
    IF a = << >> THEN [q |-> << >>, r |-> 0]
    ELSE LET hi == DivSmall(Tail(a), d)
             t  == hi.r * LIMB + Head(a)
         IN  [q |-> << t \div d >> \o hi.q, r |-> t % d]

ShiftLeft(a, k) ==
    IF a = << >> THEN << >>
    ELSE [i \in 1..(k \div LIMB_BITS) |-> 0] \o MulSmall(a, Pow2(k % LIMB_BITS), 0)

\* a shifted right by k bits, and whether a non-zero bit was shifted out
ShiftRight(a, k) ==
    LET w  == IF k \div LIMB_BITS < Len(a) THEN k \div LIMB_BITS ELSE Len(a)
        qr == DivSmall(SubSeq(a, w + 1, Len(a)), Pow2(k % LIMB_BITS))
    IN  [q  |-> Trim(qr.q),
         nz |-> qr.r # 0 \/ \E i \in 1..w : a[i] # 0]

DZero == [cls |-> "zero", m |-> << >>, e |-> 0]
DInf  == [cls |-> "inf",  m |-> << >>, e |-> 0]
DNaN  == [cls |-> "nan",  m |-> << >>, e |-> 0]

\* the double nearest to n * 2^e (plus a non-zero tail below the last bit
\* of n when sticky), ties to even
RoundD(n, e, sticky) ==
    LET len == BitLen(n)
    IN  IF len = 0 THEN DZero
        ELSE IF len <= DBL_MANT_DIG
        THEN [cls |-> "fin", m |-> ShiftLeft(n, DBL_MANT_DIG - len),
              e |-> e - (DBL_MANT_DIG - len)]
        ELSE LET k    == len - DBL_MANT_DIG
                 t    == ShiftRight(n, k - 1)
                 grd  == t.q[1] % 2
                 kept == ShiftRight(t.q, 1).q
                 rest == sticky \/ t.nz
                 up   == grd = 1 /\ (rest \/ kept[1] % 2 = 1)
                 r    == IF up THEN AddBig(kept, << 1 >>, 0) ELSE kept
             IN  IF BitLen(r) > DBL_MANT_DIG
                 THEN [cls |-> "fin", m |-> ShiftRight(r, 1).q, e |-> e + k + 1]
                 ELSE [cls |-> "fin", m |-> r, e |-> e + k]

\* int -> double, for a non-negative int
IntToD(n) == RoundD(IntToBig(n), 0, FALSE)

\* significand and exponent with the trailing zero bits stripped
OddForm(x) ==
    LET z == LowZeros(x.m)
    IN  [m |-> ShiftRight(x.m, z).q, e |-> x.e + z]

\* x / y, for a divisor whose odd significand is below 2^16
DDiv(x, y) ==
    IF x.cls = "nan" \/ y.cls = "nan" THEN DNaN
    ELSE IF y.cls = "zero" THEN (IF x.cls = "zero" THEN DNaN ELSE DInf)
    ELSE IF x.cls = "inf" THEN (IF y.cls = "inf" THEN DNaN ELSE DInf)
    ELSE IF y.cls = "inf" \/ x.cls = "zero" THEN DZero
    ELSE LET ox == OddForm(x)
             oy == OddForm(y)
             s  == DBL_MANT_DIG + BitLen(oy.m) + 1
             qr == DivSmall(ShiftLeft(ox.m, s), BigToInt(oy.m))
         IN  RoundD(Trim(qr.q), ox.e - oy.e - s, qr.r # 0)

\* x * y
DMul(x, y) ==
    IF x.cls = "nan" \/ y.cls = "nan" THEN DNaN
    ELSE IF x.cls = "inf" \/ y.cls = "inf"
    THEN (IF x.cls = "zero" \/ y.cls = "zero" THEN DNaN ELSE DInf)
    ELSE IF x.cls = "zero" \/ y.cls = "zero" THEN DZero
    ELSE RoundD(MulBig(x.m, y.m), x.e + y.e, FALSE)

\* x + y
DAdd(x, y) ==
    IF x.cls = "nan" \/ y.cls = "nan" THEN DNaN
    ELSE IF x.cls = "inf" \/ y.cls = "inf" THEN DInf
    ELSE IF x.cls = "zero" THEN y
    ELSE IF y.cls = "zero" THEN x
    ELSE LET e == IF x.e < y.e THEN x.e ELSE y.e
         IN  RoundD(AddBig(ShiftLeft(x.m, x.e - e), ShiftLeft(y.m, y.e - e), 0), e, FALSE)

\* double -> uint8_t: the fractional part is discarded; the conversion is
\* undefined when the truncated value is not representable (UB)
UB == UINT8_MAX + 1

DToUint8(x) ==
    IF x.cls = "zero" THEN 0
    ELSE IF x.cls # "fin" THEN UB
    ELSE IF x.e >= 0 THEN UB
    ELSE LET t == ShiftRight(x.m, -x.e).q
         IN  IF BitLen(t) > 8 THEN UB ELSE BigToInt(t)

\* ------------------------------------------------------------------
\* State
\* ------------------------------------------------------------------
VARIABLES
    lut,              \* charge_level_lut, the table the estimator reads
    bat_mv,           \* argument of the estimator call under test
    charge_state,     \* its local / returned value
    est_pc,           \* "call" before the estimator ran, "ret" after
    gpio,             \* drv_data->gpio # NULL (a power gate is configured)
    full_ohm,         \* drv_cfg->full_ohm
    output_ohm,       \* drv_cfg->output_ohm
    calibrate,        \* drv_data->as.calibrate
    voltage,          \* drv_data->voltage
    state_of_charge,  \* drv_data->state_of_charge
    gate_cmd,         \* value of the last command issued to the power gate
    op,               \* last driver entry point that ran
    chan,             \* channel argument of that call
    calls,            \* calls to the collaborators made by that call, in order
    ret,              \* its return value
    val1,             \* val->val1 written by bvd_channel_get
    val2,             \* val->val2 written by bvd_channel_get
    good_voltage,     \* history: voltage computed by the last successful read
    good_soc          \* history: percent computed by the last successful read

est_vars == << lut, bat_mv, charge_state, est_pc >>
drv_vars == << gpio, full_ohm, output_ohm, calibrate, voltage, state_of_charge,
               gate_cmd, op, chan, calls, ret, val1, val2, good_voltage, good_soc >>
vars == << lut, bat_mv, charge_state, est_pc,
           gpio, full_ohm, output_ohm, calibrate, voltage, state_of_charge,
           gate_cmd, op, chan, calls, ret, val1, val2, good_voltage, good_soc >>

\* ------------------------------------------------------------------
\* lithium_ion_mv_to_pct
\* ------------------------------------------------------------------
\* Interpolate with the slope computed in integer arithmetic
Interpolate_IntSlope(table, lut_idx, mv) ==
    table[lut_idx].pct
        + ((table[lut_idx + 1].pct - table[lut_idx].pct)
              \div (table[lut_idx + 1].mv - table[lut_idx].mv)) * (mv - table[lut_idx].mv)

\* Interpolate with the distance taken to the upper breakpoint
Interpolate_FromUpper(table, lut_idx, mv) ==
    LET distLower    == IntToD(table[lut_idx + 1].mv - mv)
        distAdjacent == IntToD(table[lut_idx + 1].mv - table[lut_idx].mv)
        slope        == DDiv(IntToD(table[lut_idx + 1].pct - table[lut_idx].pct),
                             distAdjacent)
    IN  DToUint8(DAdd(IntToD(table[lut_idx].pct), DMul(slope, distLower)))

\* body of the bracket found at lut_idx (1-based): the linear equation
\* evaluated in double precision and assigned to the uint8_t charge_state
Interpolate(table, lut_idx, mv) ==
    LET distLower    == IntToD(mv - table[lut_idx].mv)
        distAdjacent == IntToD(table[lut_idx + 1].mv - table[lut_idx].mv)
        slope        == DDiv(IntToD(table[lut_idx + 1].pct - table[lut_idx].pct),
                             distAdjacent)
    IN  DToUint8(DAdd(IntToD(table[lut_idx].pct), DMul(slope, distLower)))

\* the for loop, from lut_idx on; 0 when no bracket holds mv
RECURSIVE Traverse(_, _, _)
Traverse(table, lut_idx, mv) ==
    IF lut_idx >= BATTERY_CHARGE_LEVEL_LUT_COUNT THEN 0
    ELSE IF table[lut_idx].mv <= mv /\ mv <= table[lut_idx + 1].mv
    THEN Interpolate(table, lut_idx, mv)
    ELSE Traverse(table, lut_idx + 1, mv)

\* lithium_ion_mv_to_pct without the saturation branch
lithium_ion_mv_to_pct_NoClamp(table, mv) ==
    Traverse(table, 1, mv)

\* lithium_ion_mv_to_pct with the saturation comparison reversed
lithium_ion_mv_to_pct_Flipped(table, mv) ==
    IF mv <= table[BATTERY_CHARGE_LEVEL_LUT_COUNT].mv THEN 100
    ELSE Traverse(table, 1, mv)

\* the returned percent, or UB when the double -> uint8_t conversion is undefined
lithium_ion_mv_to_pct(table, mv) ==
    IF mv >= table[BATTERY_CHARGE_LEVEL_LUT_COUNT].mv THEN 100
    ELSE Traverse(table, 1, mv)

\* values a uint8_t result can take
Outcomes(r) == IF r = UB THEN 0..UINT8_MAX ELSE {r}

\* ------------------------------------------------------------------
\* Estimator on its own: the input is drawn, then the function is applied
\* ------------------------------------------------------------------
\* every value of the int16_t parameter
InputMv == INT16_MIN..INT16_MAX

DrvIdle ==
    /\ gpio = FALSE /\ full_ohm = 1 /\ output_ohm = 1 /\ calibrate = TRUE
    /\ voltage = 0 /\ state_of_charge = 0 /\ gate_cmd = 0
    /\ op = "init" /\ chan = "NONE" /\ calls = << >> /\ ret = 0
    /\ val1 = 0 /\ val2 = 0 /\ good_voltage = 0 /\ good_soc = 0

InitEstimate ==
    /\ lut = charge_level_lut
    /\ bat_mv \in InputMv
    /\ charge_state = 0
    /\ est_pc = "call"
    /\ DrvIdle

Estimate ==
    /\ est_pc = "call"
    /\ charge_state' \in Outcomes(lithium_ion_mv_to_pct(lut, bat_mv))
    /\ est_pc' = "ret"
    /\ UNCHANGED << lut, bat_mv >>
    /\ UNCHANGED drv_vars

NextEstimate == Estimate

SpecEstimate == InitEstimate /\ [][NextEstimate]_vars

\* ------------------------------------------------------------------
\* The driver: bvd_init, bvd_sample_fetch, bvd_channel_get
\* ------------------------------------------------------------------
\* channels a caller may ask for; "AMBIENT_TEMP" stands for every
\* channel the driver does not support
Channels == {"GAUGE_VOLTAGE", "GAUGE_STATE_OF_CHARGE", "ALL", "AMBIENT_TEMP"}

\* return values of the collaborators: 0 or a negative errno
GpioResults == {0, -5}
AdcResults  == {0, -22, -16}

\* value of val after adc_raw_to_millivolts
RawMv == { k * RawStep : k \in 0..MaxRawIdx }

\* << full_ohm, output_ohm >> of the devicetree instance
Dividers == { << 2, 1 >>, << 25, 2 >>, << 20, 1 >> }

\* uint16_t -> int16_t at the call of lithium_ion_mv_to_pct
ToInt16(x) == IF x > INT16_MAX THEN x - UINT16_MOD ELSE x

Call(fn, arg, rc) == [fn |-> fn, arg |-> arg, rc |-> rc]

\* state after a successful bvd_init
Init ==
    /\ lut = charge_level_lut
    /\ bat_mv = 0 /\ charge_state = 0 /\ est_pc = "call"
    /\ gpio \in BOOLEAN
    /\ \E d \in Dividers : full_ohm = d[1] /\ output_ohm = d[2]
    /\ calibrate = TRUE
    /\ voltage = 0 /\ state_of_charge = 0
    /\ gate_cmd = 0
    /\ op = "init" /\ chan = "NONE" /\ calls = << >> /\ ret = 0
    /\ val1 = 0 /\ val2 = 0
    /\ good_voltage = 0 /\ good_soc = 0

\* return -ENOTSUP before anything is touched
FetchUnsupported(c) ==
    /\ c \notin {"GAUGE_VOLTAGE", "GAUGE_STATE_OF_CHARGE", "ALL"}
    /\ calls' = << >>
    /\ ret' = -ENOTSUP
    /\ UNCHANGED << est_vars, calibrate, voltage, state_of_charge, gate_cmd,
                    good_voltage, good_soc >>

\* FetchEnableFailed that logs the failure and carries on to the read
FetchEnableFailed_Continues(c, en_rc) ==
    /\ c \in {"GAUGE_VOLTAGE", "GAUGE_STATE_OF_CHARGE", "ALL"}
    /\ gpio /\ en_rc # 0
    /\ calls' = << Call("gpio_pin_set", 1, en_rc), Call("adc_read", 0, -22),
                   Call("gpio_pin_set", 0, 0) >>
    /\ gate_cmd' = 0
    /\ ret' = -22
    /\ UNCHANGED << est_vars, calibrate, voltage, state_of_charge,
                    good_voltage, good_soc >>

\* gpio_pin_set(.., 1) failed: return rc
FetchEnableFailed(c, en_rc) ==
    /\ c \in {"GAUGE_VOLTAGE", "GAUGE_STATE_OF_CHARGE", "ALL"}
    /\ gpio /\ en_rc # 0
    /\ calls' = << Call("gpio_pin_set", 1, en_rc) >>
    /\ gate_cmd' = 1
    /\ ret' = en_rc
    /\ UNCHANGED << est_vars, calibrate, voltage, state_of_charge,
                    good_voltage, good_soc >>

\* the calls before and after adc_read
EnableCalls == IF gpio THEN << Call("gpio_pin_set", 1, 0) >> ELSE << >>
DisableCalls(dis_rc) == IF gpio THEN << Call("gpio_pin_set", 0, dis_rc) >> ELSE << >>

\* FetchReturn that returns the result of the last call made
FetchReturn_LastCall(rc, dis_rc) == IF gpio THEN dis_rc ELSE rc

\* value returned once adc_read returned rc
FetchReturn(rc, dis_rc) == IF gpio /\ dis_rc # 0 THEN dis_rc ELSE rc

\* results gpio_pin_set(.., 0) can have; it is not called without a gate
DisableResults == IF gpio THEN GpioResults ELSE {0}

\* FetchReadFailed that returns as soon as adc_read failed
FetchReadFailed_EarlyReturn(c, adc_rc, dis_rc) ==
    /\ c \in {"GAUGE_VOLTAGE", "GAUGE_STATE_OF_CHARGE", "ALL"}
    /\ adc_rc # 0
    /\ calls' = EnableCalls \o << Call("adc_read", 0, adc_rc) >>
    /\ calibrate' = FALSE
    /\ gate_cmd' = IF gpio THEN 1 ELSE gate_cmd
    /\ ret' = adc_rc
    /\ UNCHANGED << est_vars, voltage, state_of_charge, good_voltage, good_soc >>

\* FetchReadFailed that stores a reading although adc_read failed
FetchReadFailed_Stores(c, adc_rc, dis_rc) ==
    /\ c \in {"GAUGE_VOLTAGE", "GAUGE_STATE_OF_CHARGE", "ALL"}
    /\ adc_rc # 0
    /\ calls' = EnableCalls \o << Call("adc_read", 0, adc_rc) >> \o DisableCalls(dis_rc)
    /\ calibrate' = FALSE
    /\ gate_cmd' = IF gpio THEN 0 ELSE gate_cmd
    /\ ret' = FetchReturn(adc_rc, dis_rc)
    /\ voltage' = 0
    /\ state_of_charge' = 0
    /\ UNCHANGED << est_vars, good_voltage, good_soc >>

\* adc_read failed (after the gate, if any, was enabled)
FetchReadFailed(c, adc_rc, dis_rc) ==
    /\ c \in {"GAUGE_VOLTAGE", "GAUGE_STATE_OF_CHARGE", "ALL"}
    /\ adc_rc # 0
    /\ calls' = EnableCalls \o << Call("adc_read", 0, adc_rc) >> \o DisableCalls(dis_rc)
    /\ calibrate' = FALSE
    /\ gate_cmd' = IF gpio THEN 0 ELSE gate_cmd
    /\ ret' = FetchReturn(adc_rc, dis_rc)
    /\ UNCHANGED << est_vars, voltage, state_of_charge, good_voltage, good_soc >>

\* adc_read succeeded and left raw_mv millivolts in val
FetchReadOk(c, raw_mv, dis_rc) ==
    /\ c \in {"GAUGE_VOLTAGE", "GAUGE_STATE_OF_CHARGE", "ALL"}
    /\ calls' = EnableCalls \o << Call("adc_read", raw_mv, 0) >> \o DisableCalls(dis_rc)
    /\ calibrate' = FALSE
    /\ gate_cmd' = IF gpio THEN 0 ELSE gate_cmd
    /\ ret' = FetchReturn(0, dis_rc)
    /\ LET millivolts == ((raw_mv * full_ohm) \div output_ohm) % UINT16_MOD
       IN  /\ bat_mv' = ToInt16(millivolts)
           /\ charge_state' \in Outcomes(lithium_ion_mv_to_pct(lut, ToInt16(millivolts)))
           /\ est_pc' = "ret"
           /\ voltage' = millivolts
           /\ state_of_charge' = charge_state'
           /\ good_voltage' = millivolts
           /\ good_soc' = charge_state'
           /\ UNCHANGED lut

bvd_sample_fetch ==
    \E c \in Channels :
        /\ op' = "fetch"
        /\ chan' = c
        /\ \/ FetchUnsupported(c)
           \/ \E en_rc \in GpioResults : FetchEnableFailed(c, en_rc)
           \/ \E adc_rc \in AdcResults, dis_rc \in DisableResults :
                  FetchReadFailed(c, adc_rc, dis_rc)
           \/ \E raw_mv \in RawMv, dis_rc \in DisableResults :
                  FetchReadOk(c, raw_mv, dis_rc)
        /\ UNCHANGED << gpio, full_ohm, output_ohm, val1, val2 >>

bvd_channel_get ==
    \E c \in Channels :
        /\ op' = "get"
        /\ chan' = c
        /\ calls' = << >>
        /\ CASE c = "GAUGE_VOLTAGE" ->
                  /\ val1' = voltage \div 1000
                  /\ val2' = (voltage % 1000) * 1000
                  /\ ret' = 0
             [] c = "GAUGE_STATE_OF_CHARGE" ->
                  /\ val1' = state_of_charge
                  /\ val2' = 0
                  /\ ret' = 0
             [] OTHER ->
                  /\ ret' = -ENOTSUP
                  /\ UNCHANGED << val1, val2 >>
        /\ UNCHANGED << est_vars, gpio, full_ohm, output_ohm, calibrate, voltage,
                        state_of_charge, gate_cmd, good_voltage, good_soc >>

Next == bvd_sample_fetch \/ bvd_channel_get

Spec == Init /\ [][Next]_vars

\* ------------------------------------------------------------------
\* Estimator over malformed tables: two adjacent breakpoints share a voltage
\* ------------------------------------------------------------------
\* charge_level_lut with the voltage of entry i copied to entry i + 1 and the
\* percent of the first entry set to p
SharedVoltageLut(i, p) ==
    [ j \in 1..BATTERY_CHARGE_LEVEL_LUT_COUNT |->
        [ mv  |-> IF j = i + 1 THEN charge_level_lut[i].mv ELSE charge_level_lut[j].mv,
          pct |-> IF j = 1 THEN p ELSE charge_level_lut[j].pct ] ]

MalformedLuts ==
    { SharedVoltageLut(i, p) : i \in 1..(BATTERY_CHARGE_LEVEL_LUT_COUNT - 1), p \in {1, 2} }

InitMalformed ==
    /\ lut \in MalformedLuts
    /\ bat_mv \in { lut[j].mv + d : j \in 1..BATTERY_CHARGE_LEVEL_LUT_COUNT, d \in {-1, 0, 1} }
    /\ charge_state = 0
    /\ est_pc = "call"
    /\ DrvIdle

NextMalformed == Estimate

SpecMalformed == InitMalformed /\ [][NextMalformed]_vars

\* ------------------------------------------------------------------
\* Properties
\* ------------------------------------------------------------------
\* lut_idx of the first adjacent pair with table[lut_idx].mv <= mv <= table[lut_idx + 1].mv
Brackets(table, i, mv) == table[i].mv <= mv /\ mv <= table[i + 1].mv

HasBracket(table, mv) ==
    \E i \in 1..(BATTERY_CHARGE_LEVEL_LUT_COUNT - 1) : Brackets(table, i, mv)

FirstBracket(table, mv) ==
    CHOOSE i \in 1..(BATTERY_CHARGE_LEVEL_LUT_COUNT - 1) :
        /\ Brackets(table, i, mv)
        /\ \A h \in 1..(i - 1) : ~Brackets(table, h, mv)

FirstMv == charge_level_lut[1].mv
LastMv  == charge_level_lut[BATTERY_CHARGE_LEVEL_LUT_COUNT].mv

\* lo.pct + trunc((hi.pct - lo.pct) * (mv - lo.mv) / (hi.mv - lo.mv)) in exact arithmetic
ExactLinear(table, mv) ==
    LET lo == table[FirstBracket(table, mv)]
        hi == table[FirstBracket(table, mv) + 1]
    IN  lo.pct + ((hi.pct - lo.pct) * (mv - lo.mv)) \div (hi.mv - lo.mv)

\* C1: for FirstMv <= v < LastMv the result is the truncated linear
\* interpolation between the first adjacent pair that brackets v
C1_TruncatedInterpolation ==
    (est_pc = "ret" /\ FirstMv <= bat_mv /\ bat_mv < LastMv)
        => charge_state = ExactLinear(lut, bat_mv)

C1_Witness ==
    est_pc = "ret" /\ bat_mv = 3650 /\ charge_state = 44

\* C2: every input at or above the last breakpoint's voltage yields exactly 100
C2_SaturatesHigh ==
    (est_pc = "ret" /\ bat_mv >= LastMv) => charge_state = 100

C2_Witness ==
    est_pc = "ret" /\ bat_mv > LastMv /\ charge_state = 100

\* C3: below the first breakpoint's voltage no pair brackets the input and
\* the result is exactly 0
C3_FallsThroughLow ==
    (est_pc = "ret" /\ bat_mv < FirstMv)
        => (~HasBracket(lut, bat_mv) /\ charge_state = 0)

C3_Witness ==
    est_pc = "ret" /\ bat_mv = FirstMv - 1 /\ charge_state = 0

\* the inputs every input is compared with: a window around the table and
\* the int16_t extremes
ProbeMv == (MinMv..MaxMv) \cup {INT16_MIN, -1, 0, INT16_MAX}

\* the estimator over the reference table, input by input
PctOf == [ v \in ProbeMv |-> lithium_ion_mv_to_pct(charge_level_lut, v) ]

\* C4: the estimate is non-decreasing in the input voltage: the result for
\* bat_mv is at least every result for a lower input and at most every
\* result for a higher one
C4_Monotonic ==
    est_pc = "ret" =>
        \A v \in ProbeMv :
            /\ (v <= bat_mv => PctOf[v] <= charge_state)
            /\ (bat_mv <= v => charge_state <= PctOf[v])

C4_Witness ==
    /\ est_pc = "ret" /\ bat_mv = charge_level_lut[2].mv
    /\ PctOf[bat_mv - 1] <= charge_state /\ charge_state <= PctOf[bat_mv + 1]
    /\ PctOf[FirstMv - 1] < charge_state /\ charge_state < PctOf[LastMv]

\* ---- the sampling cycle --------------------------------------------
IsCall(x, fn, arg) == x.fn = fn /\ x.arg = arg

AdcCalls(cs) == { i \in 1..Len(cs) : cs[i].fn = "adc_read" }
ReadFailed(cs) == \E i \in AdcCalls(cs) : cs[i].rc # 0
ReadOk(cs) == \E i \in AdcCalls(cs) : cs[i].rc = 0
AdcRc(cs) == cs[CHOOSE i \in AdcCalls(cs) : TRUE].rc

\* the cycle began with a successful gpio_pin_set(.., 1)
GateEnabled(cs) == cs # << >> /\ cs[1] = Call("gpio_pin_set", 1, 0)
\* the last call of the cycle is gpio_pin_set(.., 0)
LastIsRelease(cs) == cs # << >> /\ IsCall(cs[Len(cs)], "gpio_pin_set", 0)
DisableFailed(cs) == LastIsRelease(cs) /\ cs[Len(cs)].rc # 0

\* C5 as stated: with a gate configured, on every exit path of
\* bvd_sample_fetch the last command issued to the gate is 'inactive'
C5_ReleasedOnEveryExit ==
    (gpio /\ op = "fetch") => gate_cmd = 0

\* C5 amended: with a gate configured, every exit path that follows a
\* successful gate-enable ends with the gate commanded inactive, whatever
\* the analog read did; the paths without a successful gate-enable
\* (unsupported channel, failed enable) issue no inactive command
C5_ReleasedAfterEnable ==
    (gpio /\ op = "fetch") =>
        /\ GateEnabled(calls) => (LastIsRelease(calls) /\ gate_cmd = 0)
        /\ ReadFailed(calls) => (LastIsRelease(calls) /\ gate_cmd = 0)
        /\ ~GateEnabled(calls) => ~LastIsRelease(calls)

C5_Witness ==
    gpio /\ op = "fetch" /\ ReadFailed(calls) /\ LastIsRelease(calls) /\ gate_cmd = 0

\* C6 as stated: a failed analog read's error code is what the cycle returns
C6_ReturnsAdcError ==
    (op = "fetch" /\ ReadFailed(calls)) => ret = AdcRc(calls)

\* C6 amended: a cycle whose analog read failed returns an error: the
\* analog read's error code, unless the gate-disable call failed, and then
\* the gate-disable call's error code
C6_ReturnsAdcErrorUnlessDisableFails ==
    (op = "fetch" /\ ReadFailed(calls)) =>
        /\ ret # 0
        /\ ret = IF DisableFailed(calls) THEN calls[Len(calls)].rc ELSE AdcRc(calls)

C6_Witness ==
    /\ op = "fetch" /\ gpio /\ ReadFailed(calls)
    /\ LastIsRelease(calls) /\ ~DisableFailed(calls) /\ ret = AdcRc(calls)

\* C7: a cycle without a successful analog read leaves voltage and
\* state_of_charge as they were, and bvd_channel_get reports the values of
\* the last successful cycle
C7_StaleValuesRetained ==
    [][ /\ (op' = "fetch" /\ ~ReadOk(calls'))
            => (voltage' = voltage /\ state_of_charge' = state_of_charge)
        /\ (op' = "get" /\ chan' = "GAUGE_STATE_OF_CHARGE")
            => (ret' = 0 /\ val1' = good_soc' /\ val2' = 0)
        /\ (op' = "get" /\ chan' = "GAUGE_VOLTAGE")
            => (ret' = 0 /\ val1' * 1000 + val2' \div 1000 = good_voltage') ]_vars

C7_Witness ==
    /\ op = "fetch" /\ ReadFailed(calls)
    /\ voltage > 0 /\ state_of_charge > 0
    /\ voltage = good_voltage /\ state_of_charge = good_soc

\* C9: with a gate configured a cycle is: gate active, at most one analog
\* read, gate inactive; the read happens only after a successful enable and
\* before the disable, and not at all after a failed enable or for an
\* unsupported channel
C9_CycleOrder ==
    (gpio /\ op = "fetch") =>
        /\ Cardinality(AdcCalls(calls)) <= 1
        /\ \A i \in AdcCalls(calls) :
              /\ i = 2
              /\ GateEnabled(calls)
              /\ Len(calls) = 3
              /\ LastIsRelease(calls)
        /\ \A i \in 1..Len(calls) :
              /\ IsCall(calls[i], "gpio_pin_set", 1) => i = 1
              /\ IsCall(calls[i], "gpio_pin_set", 0) => (i = 3 /\ GateEnabled(calls))
        /\ (calls # << >> /\ calls[1].rc # 0) => Len(calls) = 1
        /\ chan \notin {"GAUGE_VOLTAGE", "GAUGE_STATE_OF_CHARGE", "ALL"} => calls = << >>

C9_Witness ==
    /\ gpio /\ op = "fetch" /\ Len(calls) = 3
    /\ GateEnabled(calls) /\ calls[2].fn = "adc_read" /\ LastIsRelease(calls)

\* C10 as stated: after a successful cycle the stored percent is the
\* estimate of the stored voltage over the whole uint16_t range: 100 from
\* the last breakpoint up, 0 below the first
C10_PercentOfStoredVoltage ==
    (op = "fetch" /\ ReadOk(calls)) =>
        /\ state_of_charge = lithium_ion_mv_to_pct(lut, voltage)
        /\ voltage >= LastMv => state_of_charge = 100
        /\ voltage < FirstMv => state_of_charge = 0

\* ---- malformed tables ----------------------------------------------
\* C8 as stated: when the first pair that brackets the input is a pair of
\* equal voltages, the result is the lower breakpoint's percent
C8_ZeroWidthGuarded ==
    ( /\ est_pc = "ret"
      /\ bat_mv < lut[BATTERY_CHARGE_LEVEL_LUT_COUNT].mv
      /\ HasBracket(lut, bat_mv)
      /\ lut[FirstBracket(lut, bat_mv)].mv = lut[FirstBracket(lut, bat_mv) + 1].mv )
        => charge_state = lut[FirstBracket(lut, bat_mv)].pct
====
